---------------------------- MODULE Spec2Model ----------------------------
(***************************************************************************)
(* Chain swap client (L-BTC -> BTC variant, ChainToChainSwapService of     *)
(* src/unnamed/part_000 lines 1-575) together with BoltzWebsocketClient    *)
(* (src/unnamed/part_002).                                                 *)
(*                                                                         *)
(* Scheduling follows the JavaScript event loop.  A socket 'message'       *)
(* event, a REST response and a driver call are macrotasks; the code after *)
(* an await on an already settled promise is a microtask.  A macrotask     *)
(* runs only when no microtask is pending, except that the socket may emit *)
(* several 'message' events back to back before any microtask runs.        *)
(***************************************************************************)
EXTENDS Integers, Sequences, FiniteSets, Bags, TLC

\* ------------------------------------------------------------------ bounds
\* socket 'message' events in a run
MaxDeliveries == 2

\* calls of startBoltzChainSwapWithListeners in a run
MaxStarts == 1

\* connect() is called at most this many times on one client
MaxConnects == 2

\* ------------------------------------------------------- program constants
\* ids the service hands out, one per created swap
SwapIds == 1..MaxStarts

\* an id the service never handed to this client
ForeignId == 0


Channel == "swap.update"

\* enum ChainSwapTransactionStatus
StatusValue ==
  [CREATED |-> 0, LOCKUP_PENDING |-> 1, LOCKUP_CONFIRMED |-> 2,
   CLAIM_PENDING |-> 3, CLAIM_CONFIRMED |-> 4, LOCKUP_FAILED |-> 5,
   CLAIM_FAILED |-> 6]

Statuses == DOMAIN StatusValue

Terminal == {"LOCKUP_FAILED", "CLAIM_FAILED", "CLAIM_CONFIRMED"}

\* the eight status strings with a case of the switch
HandledUpdates ==
  {"swap.created", "transaction.lockup", "transaction.server.mempool",
   "transaction.server.confirmed", "transaction.claimed",
   "transaction.lockupFailed", "transaction.claimFailed", "swap.expired"}

\* a status string the switch has no case for
UnknownUpdate == "transaction.refunded"

\* what the 'transaction' of a transaction.server.confirmed update carries:
\* a hex with the swap output, a hex without it, or no hex at all
TxKinds == {"match", "nomatch", "missing"}

RestNames ==
  {"getNetworkFee", "getChainSwapFee", "createChainSwap",
   "getChainSwapClaimDetails", "claimChainSwap", "claimBTC"}

VARIABLES
  keyPair,       \* this.keyPair: 0 until initialize(), then the key drawn
  isConnected,   \* BoltzWebsocketClient.isConnected
  readyState,    \* this.ws.readyState; "NONE" while this.ws is undefined
  handlers,      \* swap ids whose handler is subscribed to messageSubject
  status,        \* value last passed to updateChainSwapStatus (entity id 1)
  prevStatus,    \* value passed by the call before that one
  statusWrites,  \* number of updateChainSwapStatus calls
  lastFrame,     \* the frame of the latest 'message' event
  tasks,         \* handler invocations suspended at an await; the one
                 \* started by the k-th 'message' event is tasks[k]
  sameTick,      \* no microtask ran since the last 'message' event
  subCalls,      \* bag of subscribe(channel, [id]) calls
  unsubCalls,    \* bag of unsubscribe(channel, [id]) calls
  wsSent,        \* bag of frames written to the socket
  restCalls,     \* number of calls per REST endpoint
  broadcasts,    \* transactions handed to claimBTC
  seedsDrawn,    \* bag of the nonce seeds given to a Musig constructor
  delivered,     \* number of socket 'message' events so far
  starts,        \* number of startBoltzChainSwapWithListeners calls so far
  registered,    \* per swap id, the key sent as refundPublicKey and
                 \* claimPublicKey in createChainSwap
  build,         \* a claim build run on a given lockup transaction
  sockets,       \* the WebSocket objects connect() created, in call order,
                 \* with what happened on each; this.ws is the last
  parseErrors    \* number of frames the 'message' handler failed to parse

vars ==
  <<keyPair, isConnected, readyState, handlers, status, prevStatus,
    statusWrites, lastFrame, tasks, sameTick, subCalls, unsubCalls, wsSent,
    restCalls, broadcasts, seedsDrawn, delivered, starts, registered, build,
    sockets, parseErrors>>

wsVars == <<isConnected, readyState>>

statusVars == <<status, prevStatus, statusWrites>>

TaskIds == DOMAIN tasks

\* ----------------------------------------------------------------- values
\* randomBytes(32) returns a value no other call returns: the value is named
\* by the call that drew it (the handler invocation and the session it is for)
RandomBytes(attempt, session) == [attempt |-> attempt, session |-> session]

NoSeed == [attempt |-> 0, session |-> "none"]

\* a session: its seed, the methods called on it in call order, the nonces
\* given to aggregateNonces and the messages given to initializeSession
\* and, from its construction, the key pair it signs with, the ordered key
\* set and the script tree it was tweaked with
NoSession ==
  [seed |-> NoSeed, ops |-> <<>>, nonces |-> <<>>, msgs |-> <<>>,
   key |-> 0, keys |-> <<>>, tree |-> "none"]

\* no claim transaction built yet
NoTransaction == [attempt |-> 0, swap |-> 0]

NoWitness == [seed |-> NoSeed, ops |-> <<>>]

\* transaction.toHex(): the signed fields and the witness of input 0
ToHex(transaction, witness) == [body |-> transaction, witness |-> witness]

NoHex == ToHex(NoTransaction, NoWitness)

IdleTask ==
  [pc |-> "idle", swap |-> 0, threw |-> FALSE, musig |-> NoSession,
   cosign |-> NoSession, witness |-> NoWitness,
   transaction |-> NoTransaction, toSign |-> NoHex]

\* pcs whose continuation is a pending microtask
MicroPcs == {"w_break", "w_unsub", "p_created", "ic_await", "oc_await"}

\* pcs suspended on a REST round trip
RestPcs == {"p_details", "p_claim", "p_bcast"}

NoMicrotask == \A t \in TaskIds : tasks[t].pc \notin MicroPcs

Call(channel, id) == SetToBag({[channel |-> channel, id |-> id]})

Frame(op, channel, id) == SetToBag({[op |-> op, channel |-> channel, id |-> id]})

NoFrame ==
  [event |-> "none", args |-> "none", id |-> ForeignId, status |-> "none",
   tx |-> "none"]

\* frames of the socket 'message' event
Update(id, st, tx) ==
  [event |-> "update", args |-> "one", id |-> id, status |-> st, tx |-> tx]

\* the frames the socket may carry when the swaps created are ids
MessagesOf(ids) ==
  {Update(id, st, "none") :
      id \in ids,
      st \in (HandledUpdates \ {"transaction.server.confirmed"})
               \cup {UnknownUpdate}}
  \cup {Update(id, "transaction.server.confirmed", tx) :
          id \in ids, tx \in TxKinds}
  \cup {Update(ForeignId, "transaction.lockupFailed", "none"),
        Update(ForeignId, "transaction.server.confirmed", "match")}
  \cup {[event |-> e, args |-> a, id |-> id, status |-> "swap.created",
         tx |-> "none"] :
          e \in {"update", "subscribe"}, a \in {"none", "empty", "one"},
          id \in ids}

Messages == MessagesOf(SwapIds)

\* mockSwapEntity.id: the key every handler passes to updateChainSwapStatus
EntityId(s) == 1


\* ------------------------------------------------------------- operations
\* updateChainSwapStatus: the mock only logs; the value logged is the status
UpdateChainSwapStatus(st) ==
  /\ status' = st
  /\ prevStatus' = status
  /\ statusWrites' = statusWrites + 1

\* subscribe that sends without looking at the connection
WsSubscribeUnguarded(channel, id) ==
  /\ subCalls' = subCalls (+) Call(channel, id)
  /\ wsSent' = wsSent (+) Frame("subscribe", channel, id)

\* BoltzWebsocketClient.subscribe
WsSubscribe(channel, id) ==
  /\ subCalls' = subCalls (+) Call(channel, id)
  /\ wsSent' = IF isConnected /\ readyState = "OPEN"
                 THEN wsSent (+) Frame("subscribe", channel, id)
                 ELSE wsSent

\* BoltzWebsocketClient.unsubscribe
WsUnsubscribe(channel, id) ==
  /\ unsubCalls' = unsubCalls (+) Call(channel, id)
  /\ wsSent' = IF isConnected /\ readyState = "OPEN"
                 THEN wsSent (+) Frame("unsubscribe", channel, id)
                 ELSE wsSent

\* one more call of a BoltzClient method
Rest(name) == restCalls' = [restCalls EXCEPT ![name] = @ + 1]

\* new Musig(zkp, keyPair, seed, [boltzPublicKey, keyPair.publicKey]);
\* boltzPublicKey names the key put first: "boltz.claim" and "boltz.lockup"
\* are the serverPublicKey of claimDetails and of lockupDetails, "local" is
\* keyPair.publicKey
NewMusig(seed, boltzPublicKey) ==
  [seed |-> seed, ops |-> <<>>, nonces |-> <<>>, msgs |-> <<>>,
   key |-> keyPair, keys |-> <<boltzPublicKey, "local">>, tree |-> "none"]

\* a method call on a session, in call order
Invoke(session, ops) == [session EXCEPT !.ops = @ \o ops]

\* TaprootUtils.tweakMusig(musig, deserializeSwapTree(tree).tree)
TweakMusig(session, tree) ==
  [Invoke(session, <<"tweak">>) EXCEPT !.tree = tree]

\* musig.aggregateNonces([[boltzPublicKey, nonce]])
AggregateNonces(session, nonce) ==
  [Invoke(session, <<"aggregateNonces">>) EXCEPT !.nonces = Append(@, nonce)]

\* musig.initializeSession(msg)
InitializeSession(session, msg) ==
  [Invoke(session, <<"initializeSession">>) EXCEPT !.msgs = Append(@, msg)]

\* the public nonce of the remote party in the response of a REST call
RemoteNonce(call) == [of |-> "boltz", from |-> call]

\* serverClaimDetails.transactionHash: the sighash of the service's claim
TransactionHash(s) == [tx |-> [attempt |-> 0, swap |-> s], input |-> 0]

\* transaction.hashForWitnessV1(0, [script], [value], SIGHASH_DEFAULT): the
\* hash covers the signed fields, not the witness
HashForWitnessV1(transaction, input) == [tx |-> transaction, input |-> input]

\* targetFee(feeRate, fee => constructClaimTransaction(...)) of invocation t
ConstructClaimTransaction(t, s) == [attempt |-> t, swap |-> s]

\* randomBytes(32) of createClaimTransaction, called by invocation t
ClaimSessionSeed(t) == RandomBytes(t, "claim")

\* the seed of the claim session, given to a second constructor
CosignSeedOfClaimSession(t, task) == task.musig.seed

\* randomBytes(32) of getBoltzPartialSignature, called by invocation t
CosignSessionSeed(t, task) == RandomBytes(t, "cosign")

\* the guards without the comparison of args[0].id
AcceptsAnyId(msg, s) ==
  /\ msg.event = "update"
  /\ msg.args = "one"

\* the guards at the head of the message handler
Accepts(msg, s) ==
  /\ msg.event = "update"
  /\ msg.args = "one"
  /\ msg.id = s

\* The cases of the switch over msg.args[0].status: the status passed to
\* updateChainSwapStatus ("none": no call) and what follows the await.
CaseSwapCreated == [write |-> "LOCKUP_PENDING", then |-> "break"]

CaseLockup == [write |-> "LOCKUP_CONFIRMED", then |-> "break"]

\* transaction.server.mempool running the claim pipeline
CaseServerMempoolStartsPipeline == [write |-> "none", then |-> "pipeline"]

CaseServerMempool == [write |-> "CLAIM_PENDING", then |-> "break"]

CaseServerConfirmed == [write |-> "none", then |-> "pipeline"]

CaseClaimed == [write |-> "CLAIM_CONFIRMED", then |-> "break"]

\* transaction.lockupFailed without the unsubscribe call
CaseLockupFailedKeepsListening == [write |-> "LOCKUP_FAILED", then |-> "break"]

CaseLockupFailed == [write |-> "LOCKUP_FAILED", then |-> "unsubscribe"]

CaseClaimFailed == [write |-> "CLAIM_FAILED", then |-> "unsubscribe"]

CaseSwapExpired == [write |-> "LOCKUP_FAILED", then |-> "unsubscribe"]

\* a default case that fails the swap
CaseDefaultFailsSwap == [write |-> "CLAIM_FAILED", then |-> "unsubscribe"]

CaseDefault == [write |-> "none", then |-> "none"]

Switch(ms) ==
  CASE ms = "swap.created" -> CaseSwapCreated
    [] ms = "transaction.lockup" -> CaseLockup
    [] ms = "transaction.server.mempool" -> CaseServerMempool
    [] ms = "transaction.server.confirmed" -> CaseServerConfirmed
    [] ms = "transaction.claimed" -> CaseClaimed
    [] ms = "transaction.lockupFailed" -> CaseLockupFailed
    [] ms = "transaction.claimFailed" -> CaseClaimFailed
    [] ms = "swap.expired" -> CaseSwapExpired
    [] OTHER -> CaseDefault

\* createClaimTransaction returning without a swap output instead of
\* throwing
CreateClaimTransactionSwallowsMiss(t, s, tx) ==
  [IdleTask EXCEPT
     !.pc = "p_created",
     !.swap = s,
     !.musig = TweakMusig(NewMusig(ClaimSessionSeed(t), "boltz.claim"),
                          "claimSwapTree"),
     !.transaction = IF tx = "match" THEN ConstructClaimTransaction(t, s)
                                     ELSE NoTransaction]

\* createClaimTransaction: the session is built and tweaked, then the hex is
\* parsed and searched; fromHex and the missing output both throw
CreateClaimTransaction(t, s, tx) ==
  [IdleTask EXCEPT
     !.pc = "p_created",
     !.swap = s,
     !.threw = (tx # "match"),
     !.musig = TweakMusig(NewMusig(ClaimSessionSeed(t), "boltz.claim"),
                          "claimSwapTree"),
     !.transaction = IF tx = "match" THEN ConstructClaimTransaction(t, s)
                                     ELSE NoTransaction]

\* getBoltzPartialSignature sending its request before signing
CosignServerClaimWithoutPartial(t, task) ==
  [task EXCEPT
     !.pc = "p_claim",
     !.cosign =
        InitializeSession(
          AggregateNonces(
            TweakMusig(
              NewMusig(CosignSessionSeed(t, task), "boltz.lockup"),
              "lockupSwapTree"),
            RemoteNonce("getChainSwapClaimDetails")),
          TransactionHash(task.swap)),
     !.toSign = ToHex(task.transaction, task.witness)]

\* getBoltzPartialSignature between its two REST calls
CosignServerClaim(t, task) ==
  [task EXCEPT
     !.pc = "p_claim",
     !.cosign =
        Invoke(InitializeSession(
                 AggregateNonces(
                   TweakMusig(
                     NewMusig(CosignSessionSeed(t, task), "boltz.lockup"),
                     "lockupSwapTree"),
                   RemoteNonce("getChainSwapClaimDetails")),
                 TransactionHash(task.swap)),
               <<"signPartial">>),
     !.toSign = ToHex(task.transaction, task.witness)]

\* claimDetails.transaction.ins[0].witness = [musig.aggregatePartials()]
SignedWitness(session) == [seed |-> session.seed, ops |-> session.ops]

\* performChainSwapClaim that calls claimBTC without aggregating
PerformChainSwapClaimUnsigned(task, partialVerifies) ==
  LET bound == InitializeSession(
                 AggregateNonces(task.musig, RemoteNonce("claimChainSwap")),
                 HashForWitnessV1(task.transaction, 0))
      signed == Invoke(bound, <<"addPartial", "signPartial">>)
  IN IF partialVerifies
       THEN [task EXCEPT !.pc = "p_bcast", !.musig = signed]
       ELSE [task EXCEPT !.threw = TRUE, !.musig = bound]

\* performChainSwapClaim that builds the transaction anew before signing
PerformChainSwapClaimRebuildsTransaction(task, partialVerifies) ==
  LET rebuilt == [attempt |-> 0 - task.transaction.attempt,
                  swap |-> task.swap]
      bound == InitializeSession(
                 AggregateNonces(task.musig, RemoteNonce("claimChainSwap")),
                 HashForWitnessV1(rebuilt, 0))
      signed == Invoke(bound, <<"addPartial", "signPartial",
                                "aggregatePartials">>)
  IN IF partialVerifies
       THEN [task EXCEPT !.pc = "p_bcast", !.musig = signed,
                         !.transaction = rebuilt,
                         !.witness = SignedWitness(signed)]
       ELSE [task EXCEPT !.threw = TRUE, !.musig = bound]

\* performChainSwapClaim that calls aggregatePartials a second time
PerformChainSwapClaimAggregatesTwice(task, partialVerifies) ==
  LET bound == InitializeSession(
                 AggregateNonces(task.musig, RemoteNonce("claimChainSwap")),
                 HashForWitnessV1(task.transaction, 0))
      signed == Invoke(bound, <<"addPartial", "signPartial",
                                "aggregatePartials", "aggregatePartials">>)
  IN IF partialVerifies
       THEN [task EXCEPT !.pc = "p_bcast", !.musig = signed,
                         !.witness = SignedWitness(signed)]
       ELSE [task EXCEPT !.threw = TRUE, !.musig = bound]

\* performChainSwapClaim that aggregates without the partial of the service
PerformChainSwapClaimWithoutRemotePartial(task, partialVerifies) ==
  LET bound == InitializeSession(
                 AggregateNonces(task.musig, RemoteNonce("claimChainSwap")),
                 HashForWitnessV1(task.transaction, 0))
      signed == Invoke(bound, <<"signPartial", "aggregatePartials">>)
  IN [task EXCEPT !.pc = "p_bcast", !.musig = signed,
                  !.witness = SignedWitness(signed)]

\* performChainSwapClaim up to the claimBTC call; addPartial throws on a
\* partial signature that does not verify
PerformChainSwapClaim(task, partialVerifies) ==
  LET bound == InitializeSession(
                 AggregateNonces(task.musig, RemoteNonce("claimChainSwap")),
                 HashForWitnessV1(task.transaction, 0))
      signed == Invoke(bound, <<"addPartial", "signPartial",
                                "aggregatePartials">>)
  IN IF partialVerifies
       THEN [task EXCEPT !.pc = "p_bcast", !.musig = signed,
                         !.witness = SignedWitness(signed)]
       ELSE [task EXCEPT !.threw = TRUE, !.musig = bound]

\* the catch of broadcastCoSignedClaimTransaction up to its await
InnerCatch(t, task) ==
  /\ UpdateChainSwapStatus("CLAIM_FAILED")
  /\ tasks' = [tasks EXCEPT ![t] = [task EXCEPT !.pc = "ic_await",
                                                !.threw = TRUE]]

\* the handler returns
Finish(t) == tasks' = [tasks EXCEPT ![t] = IdleTask]

\* the catch of handleChainSwapStatusUpdates up to its await
OuterCatch(t) ==
  /\ UpdateChainSwapStatus("CLAIM_FAILED")
  /\ tasks' = [tasks EXCEPT ![t].pc = "oc_await"]

\* the outer catch without the unsubscribe call
OuterCatchKeepsListening(t) ==
  /\ Finish(t)
  /\ UNCHANGED <<unsubCalls, wsSent>>

\* the catch of handleChainSwapStatusUpdates after its await
OuterCatchUnsubscribe(t) ==
  /\ WsUnsubscribe(Channel, tasks[t].swap)
  /\ Finish(t)

\* ---------------------------------------------------------------- actions
InitWith(slots) ==
  /\ keyPair = 0
  /\ isConnected = FALSE
  /\ readyState = "NONE"
  /\ handlers = {}
  /\ status = "CREATED"
  /\ prevStatus = "CREATED"
  /\ statusWrites = 0
  /\ lastFrame = NoFrame
  /\ tasks = [t \in 1..slots |-> IdleTask]
  /\ sameTick = FALSE
  /\ subCalls = EmptyBag
  /\ unsubCalls = EmptyBag
  /\ wsSent = EmptyBag
  /\ restCalls = [n \in RestNames |-> 0]
  /\ broadcasts = {}
  /\ seedsDrawn = EmptyBag
  /\ delivered = 0
  /\ starts = 0
  /\ registered = <<>>

\* no claim build is run apart from the handlers'
NoBuild == [pc |-> "none"]

Init ==
  /\ InitWith(MaxDeliveries)
  /\ build = NoBuild
  /\ sockets = <<>>
  /\ parseErrors = 0

\* initialize(), called at most limit times: draws a key pair, then awaits
\* connect(); the new socket opens or fails with an error event
InitializeWithin(limit, opened) ==
  /\ keyPair < limit
  /\ NoMicrotask
  /\ keyPair' = keyPair + 1
  /\ isConnected' = opened
  /\ readyState' = IF opened THEN "OPEN" ELSE "CLOSED"
  /\ sameTick' = FALSE
  /\ UNCHANGED <<handlers, statusVars, lastFrame, tasks, subCalls, unsubCalls,
                 wsSent, restCalls, broadcasts, seedsDrawn, delivered,
                 starts, registered, build,
                 sockets, parseErrors>>

\* the driver calls initialize() once
Initialize(opened) == InitializeWithin(1, opened)

\* the socket's close event
OnClose ==
  /\ readyState = "OPEN"
  /\ NoMicrotask
  /\ isConnected' = FALSE
  /\ readyState' = "CLOSED"
  /\ sameTick' = FALSE
  /\ UNCHANGED <<keyPair, handlers, statusVars, lastFrame, tasks, subCalls,
                 unsubCalls, wsSent, restCalls, broadcasts, seedsDrawn,
                 delivered, starts, registered, build,
                 sockets, parseErrors>>

\* startBoltzChainSwapWithListeners that subscribes and leaves the handler
\* unregistered
StartSwapWithinSubscribesOnly(limit, valid, outcome) ==
  /\ keyPair # 0
  /\ NoMicrotask
  /\ starts < limit
  /\ starts' = starts + 1
  /\ sameTick' = FALSE
  /\ UNCHANGED <<keyPair, wsVars, statusVars, lastFrame, tasks, unsubCalls,
                 broadcasts, seedsDrawn, delivered, build,
                 sockets, parseErrors>>
  /\ IF ~valid
       THEN UNCHANGED <<handlers, subCalls, wsSent, restCalls, registered>>
       ELSE IF outcome = "feeFail"
         THEN /\ Rest("getNetworkFee")
              /\ UNCHANGED <<handlers, subCalls, wsSent, registered>>
         ELSE IF outcome \in {"createFail", "noId"}
           THEN /\ restCalls' = [restCalls EXCEPT
                                   !["getNetworkFee"] = @ + 1,
                                   !["getChainSwapFee"] = @ + 1,
                                   !["createChainSwap"] = @ + 1]
                /\ UNCHANGED <<handlers, subCalls, wsSent, registered>>
           ELSE LET id == Cardinality(handlers) + 1 IN
                /\ restCalls' = [restCalls EXCEPT
                                   !["getNetworkFee"] = @ + 1,
                                   !["getChainSwapFee"] = @ + 1,
                                   !["createChainSwap"] = @ + 1]
                /\ WsSubscribe(Channel, id)
                /\ handlers' = handlers
                /\ registered' = registered @@ (id :> keyPair)

\* startBoltzChainSwapWithListeners without the check of chainSwap.id
StartSwapWithinWithoutIdCheck(limit, valid, outcome) ==
  /\ keyPair # 0
  /\ NoMicrotask
  /\ starts < limit
  /\ starts' = starts + 1
  /\ sameTick' = FALSE
  /\ UNCHANGED <<keyPair, wsVars, statusVars, lastFrame, tasks, unsubCalls,
                 broadcasts, seedsDrawn, delivered, build,
                 sockets, parseErrors>>
  /\ IF ~valid
       THEN UNCHANGED <<handlers, subCalls, wsSent, restCalls, registered>>
       ELSE IF outcome = "feeFail"
         THEN /\ Rest("getNetworkFee")
              /\ UNCHANGED <<handlers, subCalls, wsSent, registered>>
         ELSE IF outcome \in {"createFail"}
           THEN /\ restCalls' = [restCalls EXCEPT
                                   !["getNetworkFee"] = @ + 1,
                                   !["getChainSwapFee"] = @ + 1,
                                   !["createChainSwap"] = @ + 1]
                /\ UNCHANGED <<handlers, subCalls, wsSent, registered>>
           ELSE LET id == Cardinality(handlers) + 1 IN
                /\ restCalls' = [restCalls EXCEPT
                                   !["getNetworkFee"] = @ + 1,
                                   !["getChainSwapFee"] = @ + 1,
                                   !["createChainSwap"] = @ + 1]
                /\ WsSubscribe(Channel, id)
                /\ handlers' = handlers \cup {id}
                /\ registered' = registered @@ (id :> keyPair)

\* startBoltzChainSwapWithListeners(userBtcAddress, amount), called at most
\* limit times
StartSwapWithin(limit, valid, outcome) ==
  /\ keyPair # 0
  /\ NoMicrotask
  /\ starts < limit
  /\ starts' = starts + 1
  /\ sameTick' = FALSE
  /\ UNCHANGED <<keyPair, wsVars, statusVars, lastFrame, tasks, unsubCalls,
                 broadcasts, seedsDrawn, delivered, build,
                 sockets, parseErrors>>
  /\ IF ~valid
       THEN UNCHANGED <<handlers, subCalls, wsSent, restCalls, registered>>
       ELSE IF outcome = "feeFail"
         THEN /\ Rest("getNetworkFee")
              /\ UNCHANGED <<handlers, subCalls, wsSent, registered>>
         ELSE IF outcome \in {"createFail", "noId"}
           THEN /\ restCalls' = [restCalls EXCEPT
                                   !["getNetworkFee"] = @ + 1,
                                   !["getChainSwapFee"] = @ + 1,
                                   !["createChainSwap"] = @ + 1]
                /\ UNCHANGED <<handlers, subCalls, wsSent, registered>>
           ELSE LET id == Cardinality(handlers) + 1 IN
                /\ restCalls' = [restCalls EXCEPT
                                   !["getNetworkFee"] = @ + 1,
                                   !["getChainSwapFee"] = @ + 1,
                                   !["createChainSwap"] = @ + 1]
                /\ WsSubscribe(Channel, id)
                /\ handlers' = handlers \cup {id}
                /\ registered' = registered @@ (id :> keyPair)

StartSwap(valid, outcome) == StartSwapWithin(MaxStarts, valid, outcome)

\* the handler of swap s on an accepted message, up to its first await
Handle(t, s, msg) ==
  LET c == Switch(msg.status) IN
  IF c.then = "none"
    THEN UNCHANGED <<statusVars, tasks, seedsDrawn>>
    ELSE IF c.then = "pipeline"
      THEN /\ tasks' = [tasks EXCEPT
                          ![t] = CreateClaimTransaction(t, s, msg.tx)]
           /\ seedsDrawn' = seedsDrawn (+) SetToBag({ClaimSessionSeed(t)})
           /\ UNCHANGED statusVars
      ELSE /\ UpdateChainSwapStatus(c.write)
           /\ tasks' = [tasks EXCEPT
                          ![t] = [IdleTask EXCEPT
                                    !.pc = IF c.then = "unsubscribe"
                                             THEN "w_unsub" ELSE "w_break",
                                    !.swap = s]]
           /\ UNCHANGED seedsDrawn

\* the socket's message event: messageSubject.next(message) calls every
\* subscribed handler.  The service sends updates of a swap only once the
\* swap exists and its id was subscribed.
Deliver(msg) ==
  /\ readyState = "OPEN"
  /\ msg.id \in handlers \cup {ForeignId}
  /\ delivered + 1 \in TaskIds
  /\ NoMicrotask \/ sameTick
  /\ delivered' = delivered + 1
  /\ lastFrame' = msg
  /\ sameTick' = TRUE
  /\ UNCHANGED <<keyPair, wsVars, handlers, subCalls, unsubCalls, wsSent,
                 restCalls, broadcasts, starts, registered, build,
                 sockets, parseErrors>>
  /\ IF \E s \in handlers : Accepts(msg, s)
       THEN \E s \in handlers :
              Accepts(msg, s) /\ Handle(delivered + 1, s, msg)
       ELSE UNCHANGED <<statusVars, tasks, seedsDrawn>>

\* the code after an await on a settled promise
MicroStep(t) ==
  LET task == tasks[t] IN
  /\ task.pc \in MicroPcs
  /\ sameTick' = FALSE
  /\ UNCHANGED <<keyPair, wsVars, handlers, lastFrame, subCalls, broadcasts,
                 seedsDrawn, delivered, starts, registered, build,
                 sockets, parseErrors>>
  /\ CASE task.pc = "w_break" ->
            /\ Finish(t)
            /\ UNCHANGED <<statusVars, unsubCalls, wsSent, restCalls>>
       [] task.pc = "w_unsub" ->
            /\ WsUnsubscribe(Channel, task.swap)
            /\ Finish(t)
            /\ UNCHANGED <<statusVars, restCalls>>
       [] task.pc = "p_created" ->
            IF task.threw
              THEN /\ InnerCatch(t, task)
                   /\ UNCHANGED <<unsubCalls, wsSent, restCalls>>
              ELSE /\ Rest("getChainSwapClaimDetails")
                   /\ tasks' = [tasks EXCEPT ![t].pc = "p_details"]
                   /\ UNCHANGED <<statusVars, unsubCalls, wsSent>>
       [] task.pc = "ic_await" ->
            /\ OuterCatch(t)
            /\ UNCHANGED <<unsubCalls, wsSent, restCalls>>
       [] task.pc = "oc_await" ->
            /\ OuterCatchUnsubscribe(t)
            /\ UNCHANGED <<statusVars, restCalls>>

\* a REST call of a suspended pipeline settles: "ok", "fail" (the call
\* throws) or, for claimChainSwap, "badsig" (a partial signature that does
\* not verify)
RestReturn(t, outcome) ==
  LET task == tasks[t] IN
  /\ task.pc \in RestPcs
  /\ NoMicrotask
  /\ outcome = "badsig" => task.pc = "p_claim"
  /\ sameTick' = FALSE
  /\ UNCHANGED <<keyPair, wsVars, handlers, lastFrame, subCalls, unsubCalls,
                 wsSent, delivered, starts, registered, build,
                 sockets, parseErrors>>
  /\ IF outcome = "fail"
       THEN /\ InnerCatch(t, task)
            /\ UNCHANGED <<restCalls, broadcasts, seedsDrawn>>
       ELSE
         CASE task.pc = "p_details" ->
                /\ tasks' = [tasks EXCEPT ![t] = CosignServerClaim(t, task)]
                /\ seedsDrawn' =
                     seedsDrawn (+) SetToBag({CosignSessionSeed(t, task)})
                /\ Rest("claimChainSwap")
                /\ UNCHANGED <<statusVars, broadcasts>>
           [] task.pc = "p_claim" ->
                LET after == PerformChainSwapClaim(task, outcome = "ok") IN
                IF after.threw
                  THEN /\ InnerCatch(t, after)
                       /\ UNCHANGED <<restCalls, broadcasts, seedsDrawn>>
                  ELSE /\ tasks' = [tasks EXCEPT ![t] = after]
                       /\ broadcasts' =
                            broadcasts \cup
                              {[swap |-> after.swap,
                                body |-> after.transaction,
                                witness |-> after.witness]}
                       /\ Rest("claimBTC")
                       /\ UNCHANGED <<statusVars, seedsDrawn>>
           [] task.pc = "p_bcast" ->
                /\ Finish(t)
                /\ UNCHANGED <<statusVars, restCalls, broadcasts, seedsDrawn>>

Next ==
  \/ \E opened \in BOOLEAN : Initialize(opened)
  \/ OnClose
  \/ \E valid \in BOOLEAN,
        outcome \in {"ok", "feeFail", "createFail", "noId"} :
       StartSwap(valid, outcome)
  \/ \E msg \in Messages : Deliver(msg)
  \/ \E t \in TaskIds : MicroStep(t)
  \/ \E t \in TaskIds, outcome \in {"ok", "badsig", "fail"} :
       RestReturn(t, outcome)

Spec == Init /\ [][Next]_vars

\* the updates of a swap that completes, in the order the service sends them
CanonicalOrder ==
  <<"swap.created", "transaction.lockup", "transaction.server.mempool",
    "transaction.server.confirmed", "transaction.claimed">>

InitCanonical ==
  /\ InitWith(Len(CanonicalOrder))
  /\ build = NoBuild
  /\ sockets = <<>>
  /\ parseErrors = 0

\* the next update of the canonical order arrives for swap 1; the updates
\* follow events on the two chains, so each arrives in a tick of its own
DeliverCanonical ==
  /\ delivered < Len(CanonicalOrder)
  /\ NoMicrotask
  /\ \E tx \in TxKinds :
       Deliver(Update(1, CanonicalOrder[delivered + 1],
                      IF CanonicalOrder[delivered + 1] =
                           "transaction.server.confirmed"
                        THEN tx ELSE "none"))

\* one swap is started and fed the canonical order
NextCanonical ==
  \/ \E opened \in BOOLEAN : Initialize(opened)
  \/ OnClose
  \/ \E valid \in BOOLEAN,
        outcome \in {"ok", "feeFail", "createFail", "noId"} :
       StartSwap(valid, outcome)
  \/ DeliverCanonical
  \/ \E t \in TaskIds : MicroStep(t)
  \/ \E t \in TaskIds, outcome \in {"ok", "badsig", "fail"} :
       RestReturn(t, outcome)

SpecCanonical == InitCanonical /\ [][NextCanonical]_vars

\* the ids of two swaps tracked by one service instance
TwoSwaps == {1, 2}

\* startBoltzChainSwapWithListeners is called up to twice on one instance
NextTwoSwaps ==
  \/ \E opened \in BOOLEAN : Initialize(opened)
  \/ OnClose
  \/ \E valid \in BOOLEAN,
        outcome \in {"ok", "feeFail", "createFail", "noId"} :
       StartSwapWithin(Cardinality(TwoSwaps), valid, outcome)
  \/ \E msg \in MessagesOf(TwoSwaps) : Deliver(msg)
  \/ \E t \in TaskIds : MicroStep(t)
  \/ \E t \in TaskIds, outcome \in {"ok", "badsig", "fail"} :
       RestReturn(t, outcome)

SpecTwoSwaps == Init /\ [][NextTwoSwaps]_vars

\* ------------------------------------------- claim build on a given lockup
\* every variable but build
serviceVars ==
  <<keyPair, isConnected, readyState, handlers, status, prevStatus,
    statusWrites, lastFrame, tasks, sameTick, subCalls, unsubCalls, wsSent,
    restCalls, broadcasts, seedsDrawn, delivered, starts, registered,
    sockets, parseErrors>>

\* the output key a session stands for once tweaked: the aggregate of its
\* key set, tweaked with its tree
TweakedKey(session) == [keys |-> session.keys, tree |-> session.tree]

\* the output the service locks for the swap: the aggregate of its claim key
\* and the registered key, tweaked with the claim tree
SwapScript == [keys |-> <<"boltz.claim", "local">>, tree |-> "claimSwapTree"]

\* an output that pays somebody else
DecoyScript == [keys |-> <<>>, tree |-> "none"]

\* a lockup transaction of three outputs, the swap output of value v at
\* index k (none if k is -1)
LockupOutputs(k, v) ==
  [i \in 0..2 |->
     IF i = k THEN [value |-> v, script |-> SwapScript]
              ELSE [value |-> 1000 * (i + 1), script |-> DecoyScript]]

\* detectSwap(tweakedKey, lockupTx): the first output paying to the key, -1
\* for undefined
DetectSwap(tweakedKey, outs) ==
  LET hits == {i \in DOMAIN outs : outs[i].script = tweakedKey} IN
  IF hits = {} THEN 0 - 1
               ELSE CHOOSE i \in hits : \A j \in hits : i <= j

\* targetFee(feeRate, construct): the fee of a transaction of vsize vbytes
TargetFee(feeRate, vsize) == feeRate * vsize

\* constructClaimTransaction([utxo], script, fee): one output, the value of
\* the claimed output less the fee
ConstructClaimOutputs(utxo, fee) == <<utxo.value - fee>>

\* ---- the numbers of the language: IEEE 754 binary64, round to nearest even.
\* A natural number of any size is the sequence of its digits to the base
\* 2^14, lowest first, without leading zeros; a number of the language is
\* m * 2^e.
DigitBits == 14

Radix == 2^DigitBits

RECURSIVE ToDigits(_)
ToDigits(n) == IF n = 0 THEN <<>> ELSE <<n % Radix>> \o ToDigits(n \div Radix)

RECURSIVE ToNat(_)
ToNat(b) == IF b = <<>> THEN 0 ELSE b[1] + Radix * ToNat(Tail(b))

\* b without its leading zeros
Trim(b) ==
  LET nonzero == {i \in 1..Len(b) : b[i] # 0} IN
  IF nonzero = {} THEN <<>>
  ELSE SubSeq(b, 1, CHOOSE i \in nonzero : \A j \in nonzero : j <= i)

\* digit i of b, 0 beyond its length
Digit(b, i) == IF 1 <= i /\ i <= Len(b) THEN b[i] ELSE 0

\* the number of binary digits of b
BitLength(b) ==
  IF b = <<>> THEN 0
  ELSE DigitBits * (Len(b) - 1)
         + (CHOOSE w \in 1..DigitBits :
              2^(w - 1) <= b[Len(b)] /\ b[Len(b)] < 2^w)

\* a >= b
Geq(a, b) ==
  IF Len(a) # Len(b) THEN Len(a) > Len(b)
  ELSE LET differ == {i \in 1..Len(a) : a[i] # b[i]} IN
       \/ differ = {}
       \/ LET top == CHOOSE i \in differ : \A j \in differ : j <= i
          IN a[top] > b[top]

\* the digits of a + b + carry from digit i upwards
RECURSIVE PlusFrom(_, _, _, _)
PlusFrom(a, b, i, carry) ==
  IF i > Len(a) /\ i > Len(b)
    THEN IF carry = 0 THEN <<>> ELSE <<carry>>
    ELSE <<(Digit(a, i) + Digit(b, i) + carry) % Radix>> \o
           PlusFrom(a, b, i + 1,
                    (Digit(a, i) + Digit(b, i) + carry) \div Radix)

Plus(a, b) == PlusFrom(a, b, 1, 0)

\* the digits of a - b - borrow from digit i upwards, for a >= b
RECURSIVE MinusFrom(_, _, _, _)
MinusFrom(a, b, i, borrow) ==
  IF i > Len(a) THEN <<>>
  ELSE <<(a[i] - Digit(b, i) - borrow + Radix) % Radix>> \o
         MinusFrom(a, b, i + 1,
                   IF a[i] - Digit(b, i) - borrow < 0 THEN 1 ELSE 0)

Minus(a, b) == Trim(MinusFrom(a, b, 1, 0))

\* the digits of a * k + carry from digit i upwards, for 0 <= k <= Radix
RECURSIVE TimesFrom(_, _, _, _)
TimesFrom(a, k, i, carry) ==
  IF i > Len(a) THEN ToDigits(carry)
  ELSE <<(a[i] * k + carry) % Radix>> \o
         TimesFrom(a, k, i + 1, (a[i] * k + carry) \div Radix)

TimesSmall(a, k) == Trim(TimesFrom(a, k, 1, 0))

\* the digits of the quotient of a by k from digit i downwards, the
\* remainder of the digits above being rem, for 0 < k <= Radix
RECURSIVE OverFrom(_, _, _, _)
OverFrom(a, k, i, rem) ==
  IF i = 0 THEN <<>>
  ELSE OverFrom(a, k, i - 1, (rem * Radix + a[i]) % k) \o
         <<(rem * Radix + a[i]) \div k>>

OverSmall(a, k) == Trim(OverFrom(a, k, Len(a), 0))

\* a * 2^k
ShiftLeft(a, k) ==
  IF a = <<>> THEN <<>>
  ELSE [i \in 1..(k \div DigitBits) |-> 0] \o
         TimesSmall(a, 2^(k % DigitBits))

\* a \div 2^k
ShiftRight(a, k) ==
  IF k \div DigitBits >= Len(a) THEN <<>>
  ELSE OverSmall(SubSeq(a, k \div DigitBits + 1, Len(a)), 2^(k % DigitBits))

\* the element of a set of one element
TheOne(S) == CHOOSE x \in S : TRUE

\* the quotient of r by d for r < d * Radix: the leading digits of r and d
\* bound it, the products decide
QuotientDigit(r, d) ==
  LET cut == IF BitLength(d) > DigitBits + 1
               THEN BitLength(d) - DigitBits - 1 ELSE 0
      rt == ToNat(ShiftRight(r, cut))
      dt == ToNat(ShiftRight(d, cut))
      low == IF cut = 0 THEN rt \div dt ELSE rt \div (dt + 1)
      high == IF cut = 0 THEN rt \div dt ELSE (rt + 1) \div dt
  IN CHOOSE k \in low..high :
       /\ Geq(r, TimesSmall(d, k))
       /\ ~Geq(r, TimesSmall(d, k + 1))

\* one round of the long division: the remainder so far takes the next
\* digit of the dividend
DivRound(high, digit, d) ==
  TheOne(UNION {{[q |-> <<k>> \o high.q, r |-> Minus(r, TimesSmall(d, k))] :
                   k \in {QuotientDigit(r, d)}} :
                r \in {Trim(<<digit>> \o high.r)}})

\* quotient (with leading zeros) and remainder by d # 0 of the number made
\* of the digits of n from digit i upwards, by long division
RECURSIVE LongDivision(_, _, _)
LongDivision(n, d, i) ==
  IF Len(n) - i + 1 < Len(d) THEN [q |-> <<>>, r |-> SubSeq(n, i, Len(n))]
  ELSE TheOne({DivRound(high, n[i], d) :
                 high \in {LongDivision(n, d, i + 1)}})

DivRem(n, d) ==
  TheOne({[q |-> Trim(qr.q), r |-> qr.r] : qr \in {LongDivision(n, d, 1)}})

\* the width of the significand of a binary64 number
SignificandBits == 53

Zero == [m |-> <<>>, e |-> 0]

\* the binary64 number nearest to n / d, ties to the even significand
RoundQuotient(qr, k) ==
  LET t == BitLength(qr.q) - SignificandBits
      dropped == qr.q[1] % 2^t
      half == 2^(t - 1)
  IN TheOne({[m |-> IF \/ dropped > half
                       \/ dropped = half /\ (qr.r # <<>> \/ m[1] % 2 = 1)
                      THEN Plus(m, <<1>>) ELSE m,
              e |-> t - k] :
               m \in {ShiftRight(qr.q, t)}})

\* n / d scaled by 2^k so that the quotient has two binary digits more
\* than a significand, or three
ScaledQuotient(n, d) ==
  TheOne({[k |-> k,
           qr |-> DivRem(IF k >= 0 THEN ShiftLeft(n, k) ELSE n,
                         IF k >= 0 THEN d ELSE ShiftLeft(d, 0 - k))] :
            k \in {SignificandBits + 2 + BitLength(d) - BitLength(n)}})

RoundToDouble(n, d) ==
  IF n = <<>> THEN Zero
  ELSE TheOne({RoundQuotient(s.qr, s.k) : s \in {ScaledQuotient(n, d)}})

\* an integer below 2^53 as a number
NumberOf(n) == [m |-> ToDigits(n), e |-> 0]

\* x / y
Divide(x, y) ==
  IF x.m = <<>> THEN Zero
  ELSE TheOne({[m |-> r.m, e |-> r.e + x.e - y.e] :
                 r \in {RoundToDouble(x.m, y.m)}})

\* x - y for x >= y
Subtract(x, y) ==
  LET e == IF y.m = <<>> \/ x.e <= y.e THEN x.e ELSE y.e IN
  TheOne({[m |-> r.m, e |-> r.e + e] :
            r \in {RoundToDouble(
                     TheOne({n : n \in {Minus(ShiftLeft(x.m, x.e - e),
                                              IF y.m = <<>> THEN <<>>
                                              ELSE ShiftLeft(y.m, y.e - e))}}),
                     <<1>>)}})

\* Math.ceil(x) for x >= 0
MathCeil(x) ==
  IF x.e >= 0 THEN ToNat(ShiftLeft(x.m, x.e))
  ELSE TheOne({ToNat(floor)
                 + (IF ShiftLeft(floor, 0 - x.e) = x.m THEN 0 ELSE 1) :
               floor \in {ShiftRight(x.m, 0 - x.e)}})

\* the number a JSON document gives for the decimal bps / 100
ParseDecimal(bps) == RoundToDouble(ToDigits(bps), ToDigits(100))

\* Math.ceil(sum / (1 - boltzFeePercentage / 100))
LockupAmount(sum, bps) ==
  TheOne({MathCeil(quotient) :
            quotient \in
              {Divide(NumberOf(sum), rest) :
                 rest \in
                   {Subtract(NumberOf(1), fraction) :
                      fraction \in
                        {Divide(percentage, NumberOf(100)) :
                           percentage \in {ParseDecimal(bps)}}}}})

\* calculateLockupSend(amount): bps is fees.percentage in hundredths of a
\* percent
CalculateLockupSend(amount, bps, serverFee, userClaimFee, feeRate) ==
  LET minerFees == serverFee + userClaimFee
      lockupAmount == LockupAmount(amount + minerFees, bps)
  IN [lockupAmount |-> lockupAmount, minerFees |-> minerFees,
      boltzFee |-> lockupAmount - amount - minerFees, feeRate |-> feeRate]

NoSendParams == [lockupAmount |-> 0, minerFees |-> 0, boltzFee |-> 0,
                 feeRate |-> 0]

\* the amounts, fee schedules and lockup transactions a build is run on
BuildInputs ==
  {[pc |-> "input", amount |-> a, bps |-> b, serverFee |-> 300,
    userClaimFee |-> u, feeRate |-> r, vsize |-> 111,
    outs |-> LockupOutputs(k, IF atCost THEN a + u ELSE a),
    sendParams |-> NoSendParams, session |-> NoSession, selected |-> 0 - 1,
    txOuts |-> <<>>] :
     a \in {25000, 50000}, b \in {0, 10, 25, 9000}, u \in {222, 333},
     r \in {1, 2},
     k \in (0 - 1)..2, atCost \in BOOLEAN}

InitClaimBuild ==
  /\ InitWith(MaxDeliveries)
  /\ build \in BuildInputs
  /\ sockets = <<>>
  /\ parseErrors = 0

\* calculateLockupSend on the answers of getNetworkFee and getChainSwapFee
QuoteBuild ==
  /\ keyPair # 0
  /\ build.pc = "input"
  /\ build' = [build EXCEPT
                 !.pc = "quoted",
                 !.sendParams =
                    CalculateLockupSend(build.amount, build.bps,
                                        build.serverFee, build.userClaimFee,
                                        build.feeRate)]
  /\ UNCHANGED serviceVars

\* createClaimTransaction(preimage, swapEntity, lockupTransactionHex)
CreateClaimTransactionOnLockup ==
  /\ keyPair # 0
  /\ build.pc = "quoted"
  /\ LET musig == TweakMusig(NewMusig(RandomBytes(0, "claim"), "boltz.claim"),
                             "claimSwapTree")
         hit == DetectSwap(TweakedKey(musig), build.outs)
     IN build' =
          IF hit < 0
            THEN [build EXCEPT !.pc = "failed", !.session = musig,
                               !.selected = hit]
            ELSE [build EXCEPT
                    !.pc = "built", !.session = musig, !.selected = hit,
                    !.txOuts =
                       ConstructClaimOutputs(
                         build.outs[hit],
                         TargetFee(build.sendParams.feeRate, build.vsize))]
  /\ UNCHANGED serviceVars

\* testDetectSwap(lockupTransactionHex, claimSwapTree) of the second variant
TestDetectSwap ==
  /\ keyPair # 0
  /\ build.pc = "quoted"
  /\ LET musig == TweakMusig(NewMusig(RandomBytes(0, "probe"), "local"),
                             "claimSwapTree")
     IN build' = [build EXCEPT
                    !.pc = "probed", !.session = musig,
                    !.selected = DetectSwap(TweakedKey(musig), build.outs)]
  /\ UNCHANGED serviceVars

NextClaimBuild ==
  \/ \E opened \in BOOLEAN : Initialize(opened)
  \/ QuoteBuild
  \/ CreateClaimTransactionOnLockup
  \/ TestDetectSwap

SpecClaimBuild == InitClaimBuild /\ [][NextClaimBuild]_vars

\* ------------------------------------------------------ connection loss
\* the socket's error event; the socket is not OPEN any more when the
\* handler runs
OnError ==
  /\ readyState = "OPEN"
  /\ NoMicrotask
  /\ isConnected' = FALSE
  /\ readyState' = "CLOSED"
  /\ sameTick' = FALSE
  /\ UNCHANGED <<keyPair, handlers, statusVars, lastFrame, tasks, subCalls,
                 unsubCalls, wsSent, restCalls, broadcasts, seedsDrawn,
                 delivered, starts, registered, build,
                 sockets, parseErrors>>

\* isWebSocketConnected() returning the flag alone
IsWebSocketConnectedByFlag == isConnected

\* isWebSocketConnected()
IsWebSocketConnected == isConnected /\ readyState = "OPEN"

NextConnection ==
  \/ Next
  \/ OnError

\* every callback that is ready runs, every event that can arrive arrives
SpecConnection ==
  Init /\ [][NextConnection]_vars /\ WF_vars(NextConnection)

\* ------------------------------------------------- pipelines under fairness
\* every continuation that is ready runs, and every REST call a pipeline
\* waits for returns or fails
\* one swap is tracked
NextPipelines ==
  \/ \E opened \in BOOLEAN : Initialize(opened)
  \/ OnClose
  \/ \E valid \in BOOLEAN,
        outcome \in {"ok", "feeFail", "createFail", "noId"} :
       StartSwapWithin(1, valid, outcome)
  \/ \E msg \in MessagesOf({1}) : Deliver(msg)
  \/ \E t \in TaskIds : MicroStep(t)
  \/ \E t \in TaskIds, outcome \in {"ok", "badsig", "fail"} :
       RestReturn(t, outcome)

SpecPipelines ==
  /\ Init
  /\ [][NextPipelines]_vars
  /\ \A t \in 1..MaxDeliveries :
       /\ WF_vars(MicroStep(t))
       /\ SF_vars(\E outcome \in {"ok", "badsig", "fail"} :
                    RestReturn(t, outcome))

\* ------------------------------------------------ frames as the socket carries them
\* data of a 'message' event: the text of the buffer, and the message the
\* text stands for when it is JSON
WellFormed(msg) == [text |-> "json", message |-> msg]

Garbled(text) == [text |-> text, message |-> NoFrame]

RawFrames ==
  {WellFormed(msg) : msg \in MessagesOf({1})}
    \cup {Garbled(text) : text \in {"empty", "truncated"}}

\* JSON.parse(data.toString()) throws a SyntaxError
JsonParseThrows(data) == data.text # "json"

\* JSON.parse(data.toString()) where it returns
JsonParse(data) == data.message

\* what lastFrame holds after a 'message' event whose data did not parse
Unparsed == [NoFrame EXCEPT !.event = "unparsed"]

\* the catch of the 'message' handler, reporting the error on the socket
DropFrameAsSocketError(data) ==
  /\ readyState = "OPEN"
  /\ delivered + 1 \in TaskIds
  /\ NoMicrotask \/ sameTick
  /\ delivered' = delivered + 1
  /\ parseErrors' = parseErrors + 1
  /\ lastFrame' = Unparsed
  /\ sameTick' = TRUE
  /\ isConnected' = FALSE
  /\ UNCHANGED <<keyPair, readyState, handlers, statusVars, tasks, subCalls,
                 unsubCalls, wsSent, restCalls, broadcasts, seedsDrawn,
                 starts, registered, build, sockets>>

\* the catch of the 'message' handler: console.error and nothing else
DropFrame(data) ==
  /\ readyState = "OPEN"
  /\ delivered + 1 \in TaskIds
  /\ NoMicrotask \/ sameTick
  /\ delivered' = delivered + 1
  /\ parseErrors' = parseErrors + 1
  /\ lastFrame' = Unparsed
  /\ sameTick' = TRUE
  /\ UNCHANGED <<keyPair, wsVars, handlers, statusVars, tasks, subCalls,
                 unsubCalls, wsSent, restCalls, broadcasts, seedsDrawn,
                 starts, registered, build, sockets>>

\* the 'message' handler of the socket
OnSocketMessage(data) ==
  IF JsonParseThrows(data)
    THEN DropFrame(data)
    ELSE Deliver(JsonParse(data))

NextFrames ==
  \/ \E opened \in BOOLEAN : Initialize(opened)
  \/ OnClose
  \/ \E valid \in BOOLEAN,
        outcome \in {"ok", "feeFail", "createFail", "noId"} :
       StartSwapWithin(1, valid, outcome)
  \/ \E data \in RawFrames : OnSocketMessage(data)
  \/ \E t \in TaskIds : MicroStep(t)
  \/ \E t \in TaskIds, outcome \in {"ok", "badsig", "fail"} :
       RestReturn(t, outcome)

SpecFrames == Init /\ [][NextFrames]_vars

\* ------------------------------------------------ the client, socket by socket
\* what the client's methods and socket handlers leave alone
beyondClient ==
  <<keyPair, handlers, statusVars, lastFrame, tasks, sameTick, subCalls,
    unsubCalls, wsSent, restCalls, broadcasts, seedsDrawn, delivered, starts,
    registered, build, parseErrors>>

\* new WebSocket(endpoint) inside the promise of connect(): its state,
\* whether its open event occurred, whether an error event, a close event
\* or disconnect() occurred on it, and the promise of that connect() call
NewSocket ==
  [readyState |-> "CONNECTING", opened |-> FALSE, lost |-> FALSE,
   promise |-> "pending"]

\* this.ws.readyState after the step
CurrentReadyState == readyState' = sockets'[Len(sockets')].readyState

\* connect(): this.ws becomes a new socket; the handlers of the earlier
\* sockets stay attached to them
Connect ==
  /\ Len(sockets) < MaxConnects
  /\ sockets' = Append(sockets, NewSocket)
  /\ CurrentReadyState
  /\ UNCHANGED <<isConnected, beyondClient>>

\* the open event of socket i
OnOpen(i) ==
  /\ sockets[i].readyState = "CONNECTING"
  /\ sockets' = [sockets EXCEPT
                   ![i].readyState = "OPEN",
                   ![i].opened = TRUE,
                   ![i].promise = IF @ = "pending" THEN "resolved" ELSE @]
  /\ isConnected' = TRUE
  /\ CurrentReadyState
  /\ UNCHANGED beyondClient

\* the error event of socket i, which is CLOSING when its handlers run
OnSocketError(i) ==
  /\ sockets[i].readyState \in {"CONNECTING", "OPEN"}
  /\ sockets' = [sockets EXCEPT
                   ![i].readyState = "CLOSING",
                   ![i].lost = TRUE,
                   ![i].promise = IF @ = "pending" THEN "rejected" ELSE @]
  /\ isConnected' = FALSE
  /\ CurrentReadyState
  /\ UNCHANGED beyondClient

\* the close event of socket i
OnSocketClose(i) ==
  /\ sockets[i].readyState \in {"OPEN", "CLOSING"}
  /\ sockets' = [sockets EXCEPT ![i].readyState = "CLOSED", ![i].lost = TRUE]
  /\ isConnected' = FALSE
  /\ CurrentReadyState
  /\ UNCHANGED beyondClient

\* disconnect() with this.ws open; otherwise it does nothing
Disconnect ==
  /\ sockets # <<>>
  /\ sockets[Len(sockets)].readyState = "OPEN"
  /\ sockets' = [sockets EXCEPT ![Len(sockets)].readyState = "CLOSING",
                                ![Len(sockets)].lost = TRUE]
  /\ isConnected' = FALSE
  /\ CurrentReadyState
  /\ UNCHANGED beyondClient

\* the timer of the connect() call that created socket i
ConnectTimeout(i) ==
  /\ sockets[i].promise = "pending"
  /\ ~isConnected
  /\ sockets' = [sockets EXCEPT ![i].promise = "rejected"]
  /\ UNCHANGED <<isConnected, readyState, beyondClient>>

NextClient ==
  \/ Connect
  \/ \E i \in DOMAIN sockets : OnOpen(i)
  \/ \E i \in DOMAIN sockets : OnSocketError(i)
  \/ \E i \in DOMAIN sockets : OnSocketClose(i)
  \/ Disconnect
  \/ \E i \in DOMAIN sockets : ConnectTimeout(i)

SpecClient == Init /\ [][NextClient]_vars

\* initialize() may be called again on the instance, also while a swap is
\* tracked
NextReinitialize ==
  \/ \E opened \in BOOLEAN : InitializeWithin(2, opened)
  \/ OnClose
  \/ \E valid \in BOOLEAN,
        outcome \in {"ok", "feeFail", "createFail", "noId"} :
       StartSwap(valid, outcome)
  \/ \E msg \in Messages : Deliver(msg)
  \/ \E t \in TaskIds : MicroStep(t)
  \/ \E t \in TaskIds, outcome \in {"ok", "badsig", "fail"} :
       RestReturn(t, outcome)

SpecReinitialize == Init /\ [][NextReinitialize]_vars

\* the stored status records by key: every call of updateChainSwapStatus
\* passes the key of its handler's entity
StatusRecords == [key \in {EntityId(s) : s \in handlers} |-> status]

TypeOK ==
  /\ keyPair \in 0..2
  /\ isConnected \in BOOLEAN
  /\ readyState \in {"NONE", "CONNECTING", "OPEN", "CLOSING", "CLOSED"}
  /\ sockets \in Seq([readyState : {"CONNECTING", "OPEN", "CLOSING", "CLOSED"},
                      opened : BOOLEAN, lost : BOOLEAN,
                      promise : {"pending", "resolved", "rejected"}])
  /\ Len(sockets) <= MaxConnects
  /\ parseErrors \in 0..delivered
  /\ handlers \subseteq SwapIds \cup TwoSwaps
  /\ status \in Statuses
  /\ prevStatus \in Statuses
  /\ \A t \in TaskIds : tasks[t].pc \in {"idle"} \cup MicroPcs \cup RestPcs

\* ----------------------------------------------------------------- claims
UnsubscribeCalls(id) == CopiesIn([channel |-> Channel, id |-> id], unsubCalls)

AllReturned == \A t \in TaskIds : tasks[t].pc = "idle"

\* under SpecCanonical: the claim transaction was handed to claimBTC and the
\* only status writes are those of the four updates that write one, none of
\* a catch
NoCatchRan ==
  /\ restCalls["claimBTC"] = 1
  /\ statusWrites = Len(CanonicalOrder) - 1

\* C1: after the canonical order swap.created, transaction.lockup,
\* transaction.server.mempool, transaction.server.confirmed,
\* transaction.claimed was delivered for the tracked swap and handled with
\* every pipeline step succeeding, the status is CLAIM_CONFIRMED and exactly
\* one unsubscribe call was issued for the swap id.
C1_CanonicalOrderConfirmsAndUnsubscribesOnce ==
  (delivered = Len(CanonicalOrder) /\ AllReturned /\ NoCatchRan)
    => /\ status = "CLAIM_CONFIRMED"
       /\ UnsubscribeCalls(1) = 1

\* C2: when a step of the claim pipeline of a transaction.server.confirmed
\* update threw, the step that ends the handling of that update leaves the
\* status CLAIM_FAILED and issues unsubscribe("swap.update", [swap id]).
C2_FailedPipelineEndsClaimFailedAndUnsubscribes ==
  [][\A t \in TaskIds :
       (tasks[t].threw /\ tasks'[t].pc = "idle")
         => /\ status' = "CLAIM_FAILED"
            /\ unsubCalls' = unsubCalls (+) Call(Channel, tasks[t].swap)]_vars

\* C2 witness: the broadcast of the only pipeline failed and its handling
\* ended: CLAIM_FAILED written by both catches, one unsubscribe call.
C2_Witness ==
  /\ delivered = 1
  /\ lastFrame.status = "transaction.server.confirmed"
  /\ restCalls["claimBTC"] = 1
  /\ AllReturned
  /\ status = "CLAIM_FAILED"
  /\ statusWrites = 2
  /\ UnsubscribeCalls(1) = 1

\* C3: every transaction handed to claimBTC carries as input-0 witness the
\* result of aggregatePartials on a session on which addPartial (remote
\* partial) and signPartial (local partial) were called before; none has an
\* empty witness.
C3_OnlyFullySignedBroadcast ==
  \A b \in broadcasts :
    /\ b.witness # NoWitness
    /\ Len(b.witness.ops) > 0
    /\ b.witness.ops[Len(b.witness.ops)] = "aggregatePartials"
    /\ \E i, j \in 1..(Len(b.witness.ops) - 1) :
         /\ b.witness.ops[i] = "addPartial"
         /\ b.witness.ops[j] = "signPartial"

\* C3 witness: a claim transaction was handed to claimBTC.
C3_Witness ==
  /\ broadcasts # {}
  /\ restCalls["claimBTC"] = 1

\* the sessions a suspended handler invocation holds
SessionsOf(t) == {tasks[t].musig, tasks[t].cosign} \ {NoSession}

\* C4: no nonce seed is given to two Musig constructors, and no two
\* sessions held by claim attempts (of one attempt or of two) share a seed.
C4_FreshSessionAndSeedPerAttempt ==
  /\ \A seed \in BagToSet(seedsDrawn) : CopiesIn(seed, seedsDrawn) = 1
  /\ \A t \in TaskIds :
       tasks[t].musig # NoSession => tasks[t].musig.seed # tasks[t].cosign.seed
  /\ \A t, u \in TaskIds :
       t # u => \A m \in SessionsOf(t), n \in SessionsOf(u) : m.seed # n.seed

\* C4 witness: two claim attempts for the same swap, the second started
\* after the first failed, each with its claim and its co-signing session.
C4_Witness ==
  /\ delivered = 2
  /\ BagCardinality(seedsDrawn) = 4
  /\ tasks[1].pc = "idle"
  /\ tasks[2].pc = "p_claim"
  /\ tasks[2].swap = 1
  /\ status = "CLAIM_FAILED"

\* C5: no status write replaces a non-terminal status by an earlier
\* non-terminal status of CREATED < LOCKUP_PENDING < LOCKUP_CONFIRMED <
\* CLAIM_PENDING.
C5_StatusNeverMovesBack ==
  [][(status \notin Terminal /\ status' \notin Terminal)
       => StatusValue[status'] >= StatusValue[status]]_vars

\* C6: once the status is terminal it never changes again.
C6_TerminalStatusIsFinal ==
  [][(status \in Terminal) => (status' = status)]_vars

\* what C7 asks of one step
LockupFailedFromPendingStep ==
  /\ \A s \in handlers :
       (status = "LOCKUP_PENDING"
          /\ Deliver(Update(s, "transaction.lockupFailed", "none")))
         => /\ status' = "LOCKUP_FAILED"
            /\ tasks'[delivered'] =
                 [IdleTask EXCEPT !.pc = "w_unsub", !.swap = s]
  /\ \A t \in TaskIds :
       (tasks[t].pc = "w_unsub" /\ tasks'[t] # tasks[t])
         => /\ tasks'[t].pc = "idle"
            /\ unsubCalls' = unsubCalls (+) Call(Channel, tasks[t].swap)
            /\ status' = status

\* C7: a transaction.lockupFailed update for the tracked swap received while
\* the status is LOCKUP_PENDING sets the status to LOCKUP_FAILED, and the
\* handler then issues unsubscribe("swap.update", [swap id]).
C7_LockupFailedFromPending == [][LockupFailedFromPendingStep]_vars

\* C7 witness: swap.created, then transaction.lockupFailed, handled to the
\* end.
C7_Witness ==
  /\ lastFrame = Update(1, "transaction.lockupFailed", "none")
  /\ prevStatus = "LOCKUP_PENDING"
  /\ status = "LOCKUP_FAILED"
  /\ statusWrites = 2
  /\ AllReturned
  /\ UnsubscribeCalls(1) = 1

\* C8: a transaction.lockupFailed update delivered while the status is
\* already LOCKUP_FAILED calls neither updateChainSwapStatus nor, later,
\* unsubscribe: the handler returns at once.
C8_DuplicateLockupFailedIsNoOp ==
  [][\A s \in handlers :
       (status = "LOCKUP_FAILED"
          /\ Deliver(Update(s, "transaction.lockupFailed", "none")))
         => /\ statusWrites' = statusWrites
            /\ tasks'[delivered'].pc = "idle"]_vars

\* the three shapes of message the handler of swap s returns on at once
Ignorable(msg, s) ==
  \/ msg.event # "update"
  \/ msg.args \in {"none", "empty"}
  \/ msg.id # s

\* C9: a message that is not an update, has no args[0] or carries another
\* id starts no invocation of the handler of swap s; when every registered
\* handler ignores it, no status is written, no REST call is made, no
\* session is built and nothing is unsubscribed.
C9_OtherMessagesIgnored ==
  [][\A msg \in Messages :
       Deliver(msg)
         => /\ \A s \in handlers :
                 Ignorable(msg, s) => tasks'[delivered'].swap # s
            /\ (\A s \in handlers : Ignorable(msg, s))
                 => UNCHANGED <<statusVars, tasks, restCalls, seedsDrawn,
                                broadcasts, unsubCalls, wsSent>>]_vars

\* C9 witness: the handler of swap 1 had moved the status, then a message
\* of one of the three shapes arrived and nothing changed.
C9_Witness ==
  /\ 1 \in handlers
  /\ delivered = 2
  /\ Ignorable(lastFrame, 1)
  /\ status = "LOCKUP_PENDING"
  /\ statusWrites = 1
  /\ AllReturned

\* C10: an update for the tracked swap whose status string has no case in
\* the switch changes no status, calls no unsubscribe and no REST endpoint
\* and suspends no handler invocation.
C10_UnknownStatusIgnored ==
  [][\A msg \in Messages :
       (msg.id \in handlers /\ msg.event = "update" /\ msg.args = "one"
          /\ msg.status \notin HandledUpdates /\ Deliver(msg))
         => UNCHANGED <<statusVars, tasks, restCalls, unsubCalls, wsSent,
                        seedsDrawn, broadcasts>>]_vars

\* C10 witness: the status was LOCKUP_CONFIRMED when an update with an
\* unhandled status string arrived for the tracked swap, and it still is.
C10_Witness ==
  /\ lastFrame = Update(1, UnknownUpdate, "none")
  /\ 1 \in handlers
  /\ delivered = 2
  /\ status = "LOCKUP_CONFIRMED"
  /\ statusWrites = 1
  /\ AllReturned

\* C11: when the claim pipeline of a transaction.server.confirmed update
\* ends without an exception (claimBTC returned), the handling of that update
\* leaves the status CLAIM_CONFIRMED.
C11_PipelineSuccessConfirms ==
  [][\A t \in TaskIds :
       (tasks[t].pc = "p_bcast" /\ tasks'[t].pc = "idle")
         => status' = "CLAIM_CONFIRMED"]_vars

\* C12: after a transaction.claimed update for the tracked swap, received in
\* the pre-terminal status CREATED, was handled to the end, the status is
\* CLAIM_CONFIRMED and an unsubscribe call was issued for the swap id.
C12_ClaimedConfirmsAndStopsListening ==
  (/\ delivered = 1
   /\ lastFrame = Update(1, "transaction.claimed", "none")
   /\ AllReturned)
    => /\ status = "CLAIM_CONFIRMED"
       /\ UnsubscribeCalls(1) >= 1

\* op was called on the session before its k-th call
CalledBefore(session, op, k) == \E i \in 1..(k - 1) : session.ops[i] = op

\* C13: whenever aggregatePartials was called on a claim session, then
\* before it aggregateNonces was called with the nonce of the service,
\* initializeSession with the sighash of input 0 of the claim transaction of
\* the attempt, and addPartial with the partial signature of the service.
C13_AggregationOnlyWhenComplete ==
  \A t \in TaskIds :
    LET m == tasks[t].musig IN
    \A k \in 1..Len(m.ops) :
      m.ops[k] = "aggregatePartials"
        => /\ CalledBefore(m, "aggregateNonces", k)
           /\ m.nonces = <<[of |-> "boltz", from |-> "claimChainSwap"]>>
           /\ CalledBefore(m, "initializeSession", k)
           /\ tasks[t].transaction # NoTransaction
           /\ m.msgs = <<[tx |-> tasks[t].transaction, input |-> 0]>>
           /\ CalledBefore(m, "addPartial", k)

\* C13 witness: a claim session on which aggregatePartials was called, its
\* transaction waiting for the answer of claimBTC.
C13_Witness ==
  \E t \in TaskIds :
    /\ tasks[t].pc = "p_bcast"
    /\ tasks[t].musig.ops[Len(tasks[t].musig.ops)] = "aggregatePartials"

\* the order the signing steps are numbered in
RequiredOrder ==
  <<"tweak", "aggregateNonces", "initializeSession", "signPartial",
    "addPartial", "aggregatePartials">>

\* C14: the calls made on a claim session are, at any time, the first calls
\* of the order tweak, aggregateNonces, initializeSession, signPartial,
\* addPartial, aggregatePartials.
C14_StepsInRequiredOrder ==
  \A t \in TaskIds :
    LET ops == tasks[t].musig.ops IN
    /\ Len(ops) <= Len(RequiredOrder)
    /\ \A i \in 1..Len(ops) : ops[i] = RequiredOrder[i]

\* number of calls of op on a session
Count(session, op) ==
  Cardinality({i \in 1..Len(session.ops) : session.ops[i] = op})

SingleUse(session) ==
  /\ \A op \in {"initializeSession", "signPartial", "aggregatePartials"} :
       Count(session, op) <= 1
  /\ Len(session.msgs) <= 1

\* aggregatePartials has returned
Finalized(session) == Count(session, "aggregatePartials") > 0

\* the step calls no method on the session, or drops it
NoFurtherCall(before, after) == after.ops \in {before.ops, <<>>}

\* C15: on no session initializeSession, signPartial or aggregatePartials is
\* called twice or two sighashes are bound; no two handler invocations (of one
\* swap or of two) hold the same session; and once aggregatePartials returned
\* or a step of the attempt threw, no method is called on its sessions.
C15_SessionsAreSingleUse ==
  /\ [](\A t \in TaskIds :
          /\ SingleUse(tasks[t].musig)
          /\ SingleUse(tasks[t].cosign)
          /\ \A u \in TaskIds \ {t} : SessionsOf(t) \cap SessionsOf(u) = {})
  /\ [][\A t \in TaskIds :
          (Finalized(tasks[t].musig) \/ tasks[t].threw)
            => /\ NoFurtherCall(tasks[t].musig, tasks'[t].musig)
               /\ NoFurtherCall(tasks[t].cosign, tasks'[t].cosign)]_vars

\* C15 witness: two swaps each in a claim attempt; the first aggregated and
\* waits for claimBTC, the second failed after both its sessions were used.
C15_Witness ==
  /\ tasks[1].swap = 1
  /\ tasks[1].pc = "p_bcast"
  /\ Finalized(tasks[1].musig)
  /\ tasks[2].swap = 2
  /\ tasks[2].threw
  /\ tasks[2].cosign # NoSession

\* the attempt of invocation t handed its transaction to claimBTC
Broadcast(t) ==
  [swap |-> tasks[t].swap, body |-> tasks[t].transaction,
   witness |-> tasks[t].witness] \in broadcasts

\* C16: within a claim attempt the serialization sent as toSign.transaction,
\* the transaction the sighash given to initializeSession is computed over
\* and the transaction handed to claimBTC have the same signed fields; the
\* transaction built is not changed while the attempt runs, the serialization
\* sent to the service carries no aggregated signature yet, and the witness
\* of input 0 is set only once the sighash was computed.
C16_OneTransactionPerAttempt ==
  /\ [](\A t \in TaskIds :
          LET task == tasks[t] IN
          /\ task.toSign # NoHex
               => /\ task.toSign.body = task.transaction
                  /\ task.toSign.witness = NoWitness
          /\ task.musig.msgs # <<>>
               => task.musig.msgs = <<[tx |-> task.transaction, input |-> 0]>>
          /\ task.witness # NoWitness => task.musig.msgs # <<>>
          /\ task.pc = "p_bcast"
               => /\ Broadcast(t)
                  /\ task.toSign.body = task.transaction
                  /\ task.transaction # NoTransaction)
  /\ [][\A t \in TaskIds :
          (tasks[t].transaction # NoTransaction /\ tasks'[t].pc # "idle")
            => tasks'[t].transaction = tasks[t].transaction]_vars

\* C16 witness: an attempt sent its transaction to the service for signing,
\* bound the sighash, set the witness and handed the transaction to claimBTC.
C16_Witness ==
  \E t \in TaskIds :
    /\ tasks[t].pc = "p_bcast"
    /\ tasks[t].toSign = ToHex(tasks[t].transaction, NoWitness)
    /\ tasks[t].witness # NoWitness
    /\ Broadcast(t)
    /\ restCalls["claimBTC"] = 1

\* C17: after a transaction.server.confirmed update whose transaction has no
\* output for the tweaked key was handled to the end, the status is not a
\* failed one, no unsubscribe call was issued and the swap is still tracked.
C17_NoMatchIsNotAFailure ==
  (/\ delivered = 1
   /\ lastFrame = Update(1, "transaction.server.confirmed", "nomatch")
   /\ AllReturned)
    => /\ status \notin {"CLAIM_FAILED", "LOCKUP_FAILED"}
       /\ UnsubscribeCalls(1) = 0
       /\ 1 \in handlers

\* C18: once unsubscribe was called for a swap id, the delivery of an update
\* for that id writes no status, starts no handler invocation and no claim
\* attempt, and calls neither a REST endpoint nor unsubscribe.
C18_NoReactionAfterUnsubscribe ==
  [][\A msg \in Messages :
       (msg.id \in handlers /\ UnsubscribeCalls(msg.id) > 0 /\ Deliver(msg))
         => UNCHANGED <<statusVars, tasks, restCalls, unsubCalls, seedsDrawn,
                        broadcasts>>]_vars

\* pcs from which the next step of the invocation has an effect whatever the
\* outcome: a status write, a REST call or an unsubscribe call
EffectsLeft ==
  {"w_unsub", "p_created", "p_details", "p_claim", "ic_await", "oc_await"}

\* the swap of the invocation that takes the step
SwapOfStep(u) ==
  IF tasks[u].pc = "idle" THEN tasks'[u].swap ELSE tasks[u].swap

\* C19: while the handling of an update still has effects to come, no step
\* of the handling of a later update for the same swap has an effect (status
\* write, REST call, session construction, broadcast, unsubscribe).
C19_UpdatesHandledOneAfterTheOther ==
  [][\A t, u \in TaskIds :
       (/\ t < u
        /\ tasks[t].pc \in EffectsLeft
        /\ tasks'[u] # tasks[u]
        /\ SwapOfStep(u) = tasks[t].swap)
         => UNCHANGED <<statusVars, restCalls, unsubCalls, seedsDrawn,
                        broadcasts>>]_vars

\* C20: with two swaps tracked, the handlers of two swaps write under
\* different keys, and an update accepted by the handler of swap x leaves
\* the status record of swap y as it was.
C20_IndependentStatusRecords ==
  [][\A x \in handlers, y \in handlers, msg \in MessagesOf(TwoSwaps) :
       (x # y /\ Accepts(msg, x) /\ Deliver(msg))
         => /\ EntityId(x) # EntityId(y)
            /\ StatusRecords'[EntityId(y)] = StatusRecords[EntityId(y)]]_vars

\* C21: LOCKUP_FAILED is written only over CREATED or LOCKUP_PENDING.
C21_LockupFailedOnlyBeforeLockup ==
  [][(statusWrites' # statusWrites /\ status' = "LOCKUP_FAILED")
       => status \in {"CREATED", "LOCKUP_PENDING"}]_vars

\* C22: CLAIM_FAILED is written only over LOCKUP_CONFIRMED or CLAIM_PENDING.
C22_ClaimFailedOnlyAfterLockup ==
  [][(statusWrites' # statusWrites /\ status' = "CLAIM_FAILED")
       => status \in {"LOCKUP_CONFIRMED", "CLAIM_PENDING"}]_vars

\* invocation t starts the claim pipeline in this step
StartsPipeline(t) == tasks[t].pc = "idle" /\ tasks'[t].pc = "p_created"

\* C23: the claim pipeline is started only while the status is CLAIM_PENDING.
C23_PipelineOnlyFromClaimPending ==
  [][\A t \in TaskIds : StartsPipeline(t) => status = "CLAIM_PENDING"]_vars

C25_DetectionOnServerMempool ==
  [][\A t \in TaskIds :
       StartsPipeline(t)
         => lastFrame'.status = "transaction.server.mempool"]_vars

\* the co-signing session signed the claim of the service: nonce and sighash
\* are those of getChainSwapClaimDetails
SignedServerClaim(task) ==
  /\ task.cosign.nonces = <<[of |-> "boltz", from |-> "getChainSwapClaimDetails"]>>
  /\ task.cosign.msgs = <<[tx |-> [attempt |-> 0, swap |-> task.swap], input |-> 0]>>
  /\ Len(task.cosign.ops) > 0
  /\ task.cosign.ops[Len(task.cosign.ops)] = "signPartial"

\* C26: while getChainSwapClaimDetails is awaited neither session has a
\* nonce of the service; claimChainSwap is called only with the partial
\* signature over the claim of the service made; the claim session gets the
\* nonce of the service only from the answer to claimChainSwap, and only
\* then it aggregates and the transaction goes to claimBTC.
C26_TwoSequentialRoundTrips ==
  /\ restCalls["claimBTC"] <= restCalls["claimChainSwap"]
  /\ restCalls["claimChainSwap"] <= restCalls["getChainSwapClaimDetails"]
  /\ \A t \in TaskIds :
       LET task == tasks[t] IN
       /\ task.pc \in {"p_created", "p_details"}
            => task.cosign = NoSession /\ task.musig.nonces = <<>>
       /\ task.pc = "p_claim"
            => /\ SignedServerClaim(task)
               /\ task.musig.nonces = <<>>
               /\ task.witness = NoWitness
       /\ task.musig.nonces # <<>>
            => /\ SignedServerClaim(task)
               /\ task.musig.nonces =
                    <<[of |-> "boltz", from |-> "claimChainSwap"]>>
       /\ task.pc = "p_bcast"
            => /\ SignedServerClaim(task)
               /\ Finalized(task.musig)

\* C26 witness: an attempt went through both round trips and waits for the
\* answer of claimBTC.
C26_Witness ==
  \E t \in TaskIds :
    /\ tasks[t].pc = "p_bcast"
    /\ SignedServerClaim(tasks[t])
    /\ restCalls["getChainSwapClaimDetails"] = 1
    /\ restCalls["claimChainSwap"] = 1
    /\ restCalls["claimBTC"] = 1

\* C27: every signing session of a claim attempt signs with the key pair
\* whose public key was registered with the service when the swap of the
\* attempt was created.
C27_SessionsUseRegisteredKey ==
  \A t \in TaskIds :
    \A m \in SessionsOf(t) : m.key = registered[tasks[t].swap]

\* the key set is [key of the service, local key] and the tree is the one of
\* the role of that key
WellKeyed(session) ==
  \/ /\ session.keys = <<"boltz.claim", "local">>
     /\ session.tree \in {"none", "claimSwapTree"}
  \/ /\ session.keys = <<"boltz.lockup", "local">>
     /\ session.tree \in {"none", "lockupSwapTree"}

\* C28: every session built, by a claim attempt or by a build run on a given
\* lockup transaction (createClaimTransaction, testDetectSwap), is over
\* [key of the service, local key] and tweaked with the tree of that key's
\* role.
C28_SessionsOverRemoteThenLocal ==
  /\ \A t \in TaskIds : \A m \in SessionsOf(t) : WellKeyed(m)
  /\ build.pc \in {"built", "failed", "probed"} => WellKeyed(build.session)

\* C29: for amount 25000 and fee rate 2, on a lockup transaction with the
\* swap output at index 1 between two other outputs, the claim build selects
\* index 1 and gives one output of value 25000 - minerFees - boltzFee.
C29_ClaimOutputValue ==
  (/\ build.pc \in {"built", "failed"}
   /\ build.amount = 25000
   /\ build.feeRate = 2
   /\ build.outs[1].script = SwapScript)
    => /\ build.selected = 1
       /\ build.txOuts =
            <<25000 - build.sendParams.minerFees - build.sendParams.boltzFee>>

\* C30: once the socket has been open, isWebSocketConnected() is true again
\* and again: after a close or error event the client reconnects by itself.
C30_ReconnectsAfterLoss ==
  [](IsWebSocketConnected => []<>IsWebSocketConnected)

\* the step in which claimChainSwap, the one request that carries the
\* preimage, is called
SendsPreimage == restCalls'["claimChainSwap"] # restCalls["claimChainSwap"]

\* C31: the preimage is sent only by an attempt whose createClaimTransaction
\* found the swap output and built the claim transaction, and together with
\* that transaction; an attempt whose detection or construction threw sends
\* nothing.
C31_PreimageOnlyAfterClaimBuilt ==
  [][(SendsPreimage) =>
       \E t \in TaskIds :
         /\ tasks[t].pc = "p_details"
         /\ tasks'[t].pc = "p_claim"
         /\ ~tasks[t].threw
         /\ tasks[t].transaction = ConstructClaimTransaction(t, tasks[t].swap)
         /\ tasks'[t].toSign.body = tasks[t].transaction]_vars

\* C31 witness: one attempt threw in createClaimTransaction and reached the
\* catch, another built its transaction and sent the preimage.
C31_Witness ==
  /\ restCalls["claimChainSwap"] = 1
  /\ restCalls["getChainSwapClaimDetails"] = 1
  /\ status = "CLAIM_FAILED"
  /\ \E t \in TaskIds :
       /\ tasks[t].pc = "p_claim"
       /\ tasks[t].transaction # NoTransaction

\* the claim pipelines started so far, by the attempt they took
PipelinesStarted ==
  {t \in TaskIds : CopiesIn(ClaimSessionSeed(t), seedsDrawn) > 0}

\* C32: for each swap at most one claim pipeline is started and at most one
\* claim transaction is handed to claimBTC, whatever updates are delivered.
C32_OnePipelineAndOneBroadcastPerSwap ==
  /\ Cardinality(PipelinesStarted) <= Cardinality(handlers)
  /\ \A s \in handlers : Cardinality({b \in broadcasts : b.swap = s}) <= 1

\* attempt t is a claim pipeline that has not returned
InPipeline(t) == tasks[t].pc # "idle" /\ tasks[t].musig # NoSession

\* the step in which the pipeline of attempt t returns
PipelineEnds(t) == InPipeline(t) /\ tasks'[t].pc = "idle"

\* C33: every claim pipeline that is started returns, and it returns in one
\* of two ways: from the answer of claimBTC, its transaction handed over and
\* nothing else written, or from the outer catch with status CLAIM_FAILED
\* and an unsubscribe call for its swap.
C33_PipelineEndsBroadcastOrFailed ==
  /\ \A t \in 1..MaxDeliveries : InPipeline(t) ~> (tasks[t].pc = "idle")
  /\ [][\A t \in TaskIds :
          PipelineEnds(t) =>
            \/ /\ tasks[t].pc = "p_bcast"
               /\ \E b \in broadcasts :
                    b.body = tasks[t].transaction /\ b.swap = tasks[t].swap
               /\ UNCHANGED <<statusVars, unsubCalls>>
            \/ /\ tasks[t].pc = "oc_await"
               /\ tasks[t].threw
               /\ status' = "CLAIM_FAILED"
               /\ unsubCalls' = unsubCalls (+) Call(Channel, tasks[t].swap)]_vars

\* C33 witness: two pipelines have returned, one after its transaction went
\* to claimBTC, the other through the catch.
C33_Witness ==
  /\ AllReturned
  /\ Cardinality(PipelinesStarted) = 2
  /\ restCalls["claimBTC"] = 1
  /\ Cardinality(broadcasts) = 1
  /\ status = "CLAIM_FAILED"
  /\ UnsubscribeCalls(1) = 1

\* the subscribe frame of swap id
SubscribeFrame(id) == [op |-> "subscribe", channel |-> Channel, id |-> id]

\* the message event of this step carries an update of a subscribed swap
\* that the switch has a case for
ReceivesUpdateOf(id) ==
  /\ delivered' = delivered + 1
  /\ Accepts(lastFrame', id)
  /\ CopiesIn(SubscribeFrame(id), wsSent) > 0
  /\ Switch(lastFrame'.status).then # "none"

\* C34: subscribe is called only in the step that registers the handler of
\* the same swap, so a swap that was subscribed has its handler, and every
\* update of the swap that arrives after the subscribe frame was sent is
\* taken up by the handler of that swap.
C34_NoUpdateLostAfterSubscribe ==
  /\ [](\A id \in TwoSwaps :
          CopiesIn([channel |-> Channel, id |-> id], subCalls) > 0
            => id \in handlers)
  /\ [][(subCalls' # subCalls) =>
          \E id \in TwoSwaps :
            /\ id \notin handlers
            /\ subCalls' = subCalls (+) Call(Channel, id)
            /\ handlers' = handlers \cup {id}]_vars
  /\ [][\A id \in TwoSwaps :
          ReceivesUpdateOf(id) =>
            /\ tasks'[delivered'].pc # "idle"
            /\ tasks'[delivered'].swap = id]_vars

\* C34 witness: the second swap was subscribed on the open socket and an
\* update of it is being handled.
C34_Witness ==
  /\ CopiesIn(SubscribeFrame(2), wsSent) = 1
  /\ lastFrame.id = 2
  /\ \E t \in TaskIds : tasks[t].swap = 2 /\ tasks[t].pc # "idle"

\* the three REST calls of a start that reached createChainSwap
CalledCreateChainSwap ==
  restCalls' = [restCalls EXCEPT !["getNetworkFee"] = @ + 1,
                                 !["getChainSwapFee"] = @ + 1,
                                 !["createChainSwap"] = @ + 1]

\* C35: a start that subscribes or registers a handler has called
\* createChainSwap and does both; a start with an empty address or an
\* amount <= 0 makes no REST call and a start whose fee lookup or
\* createChainSwap fails, or whose response has no id, sends no subscribe
\* message and registers no handler.
C35_SubscribesOnlyAfterSwapCreated ==
  [][/\ (starts' # starts /\ <<subCalls, handlers, wsSent>>' #
                               <<subCalls, handlers, wsSent>>)
          => /\ CalledCreateChainSwap
             /\ subCalls' # subCalls
             /\ handlers' # handlers
     /\ \A outcome \in {"ok", "feeFail", "createFail", "noId"} :
          StartSwap(FALSE, outcome)
            => UNCHANGED <<restCalls, subCalls, handlers, wsSent>>
     /\ \A outcome \in {"feeFail", "createFail", "noId"} :
          StartSwap(TRUE, outcome)
            => /\ restCalls' # restCalls
               /\ UNCHANGED <<subCalls, handlers, wsSent>>]_vars

\* C35 witness: a start reached createChainSwap and threw: nothing was
\* subscribed and no handler registered.
C35_Witness ==
  /\ starts = 1
  /\ restCalls["createChainSwap"] = 1
  /\ handlers = {}
  /\ subCalls = EmptyBag
  /\ wsSent = EmptyBag

\* lockup * (100 - p) / 100 >= sum for p = bps / 100, in exact arithmetic
Covers(lockup, bps, sum) ==
  Geq(TimesSmall(ToDigits(lockup), 10000 - bps),
      TimesSmall(ToDigits(sum), 10000))

\* C36: calculateLockupSend returns as lockupAmount the smallest integer L
\* with L * (100 - p) / 100 >= amount + minerFees, and boltzFee =
\* lockupAmount - amount - minerFees, which is >= 0 and >= lockupAmount *
\* p / 100.
C36_LockupAmountIsSmallest ==
  build.pc \in {"quoted", "built", "failed", "probed"} =>
    LET sent == build.sendParams
        sum == build.amount + sent.minerFees
    IN /\ sent.minerFees = build.serverFee + build.userClaimFee
       /\ Covers(sent.lockupAmount, build.bps, sum)
       /\ ~Covers(sent.lockupAmount - 1, build.bps, sum)
       /\ sent.boltzFee = sent.lockupAmount - build.amount - sent.minerFees
       /\ sent.boltzFee >= 0
       /\ Geq(TimesSmall(ToDigits(sent.boltzFee), 10000),
              TimesSmall(ToDigits(sent.lockupAmount), build.bps))

\* C37: a subscribe or unsubscribe call writes its frame to the socket
\* exactly when the client is connected and the socket is open, and the
\* caller goes on either way: the start registers its handler, the handler
\* that unsubscribes returns; a swap whose subscribe frame was not sent gets
\* no update.
C37_SendsOnlyWhenConnected ==
  /\ [][(subCalls' # subCalls) =>
          \E id \in SwapIds :
            /\ subCalls' = subCalls (+) Call(Channel, id)
            /\ handlers' = handlers \cup {id}
            /\ wsSent' = IF IsWebSocketConnected
                           THEN wsSent (+) Frame("subscribe", Channel, id)
                           ELSE wsSent]_vars
  /\ [][(unsubCalls' # unsubCalls) =>
          \E t \in TaskIds :
            /\ tasks[t].pc \in {"w_unsub", "oc_await"}
            /\ tasks'[t].pc = "idle"
            /\ unsubCalls' = unsubCalls (+) Call(Channel, tasks[t].swap)
            /\ wsSent' =
                 IF IsWebSocketConnected
                   THEN wsSent (+)
                          Frame("unsubscribe", Channel, tasks[t].swap)
                   ELSE wsSent]_vars
  /\ [](\A s \in handlers :
          CopiesIn(SubscribeFrame(s), wsSent) = 0
            => /\ lastFrame.id # s
               /\ \A t \in TaskIds : tasks[t].swap # s)

\* C37 witness: a swap was started after the connection dropped: subscribe
\* was called and the handler registered, nothing was sent.
C37_Witness ==
  /\ readyState = "CLOSED"
  /\ handlers = {1}
  /\ CopiesIn([channel |-> Channel, id |-> 1], subCalls) = 1
  /\ wsSent = EmptyBag
  /\ restCalls["createChainSwap"] = 1

\* C38: isWebSocketConnected() is true only if the open event of the
\* current socket occurred and no error event, close event or disconnect()
\* occurred on it since; it is false before connect() is called; the promise
\* of a connect() call is resolved only if the open event of its socket
\* occurred.
C38_ConnectedOnlyWhileCurrentSocketOpen ==
  /\ IsWebSocketConnected
       => /\ sockets # <<>>
          /\ sockets[Len(sockets)].opened
          /\ ~sockets[Len(sockets)].lost
  /\ sockets = <<>> => ~IsWebSocketConnected
  /\ \A i \in DOMAIN sockets :
       sockets[i].promise = "resolved" => sockets[i].opened

\* C38 witness: connect() was called twice; the first socket opened and was
\* lost, the second is open and the client reports it connected.
C38_Witness ==
  /\ Len(sockets) = 2
  /\ sockets[1].opened
  /\ sockets[1].lost
  /\ sockets[2].promise = "resolved"
  /\ IsWebSocketConnected

\* the 'message' event of this step carried data that is not JSON
DropsFrame == parseErrors' = parseErrors + 1

\* C39: a frame that is not JSON is dropped: the step that receives it
\* starts no handler, writes no status, sends nothing and leaves the
\* connection as it was; an update of the subscribed swap that arrives
\* later, whatever was dropped before it, starts the handler in the step
\* that receives it, as the invocation numbered by its arrival, and no
\* invocation exists for a frame that has not arrived.
C39_UnparsableFrameDroppedOthersDelivered ==
  /\ [][DropsFrame =>
          /\ delivered' = delivered + 1
          /\ UNCHANGED <<keyPair, wsVars, handlers, statusVars, tasks,
                         subCalls, unsubCalls, wsSent, restCalls, broadcasts,
                         seedsDrawn, starts, registered>>]_vars
  /\ [][(ReceivesUpdateOf(1) /\ ~DropsFrame) =>
          /\ tasks'[delivered'].pc # "idle"
          /\ tasks'[delivered'].swap = 1
          /\ \A t \in TaskIds :
               (t # delivered' /\ tasks[t].pc = "idle")
                 => tasks'[t].pc = "idle"]_vars
  /\ [](\A t \in TaskIds : t > delivered => tasks[t].pc = "idle")

\* C39 witness: the first frame did not parse, and the update that came
\* after it is being handled as the second invocation.
C39_Witness ==
  /\ parseErrors = 1
  /\ delivered = 2
  /\ lastFrame.id = 1
  /\ tasks[1].pc = "idle"
  /\ tasks[2].pc # "idle"
  /\ tasks[2].swap = 1

=============================================================================
